---- MODULE Spec2Model ----
(***************************************************************************)
(* joker.interfaces: the JSON HTTP client (http.py), the document          *)
(* generation client (printable.py) and the prefix checks of utils.        *)
(*                                                                         *)
(* Python values are tagged records [t |-> type, v |-> payload].  A text   *)
(* (a response body, a serialised payload) is a sequence of JSON lexemes,  *)
(* so that json.loads and json.dumps are a parser and a printer and not    *)
(* the identity.                                                           *)
(***************************************************************************)
EXTENDS Integers, Sequences, FiniteSets, TLC

VARIABLES
    loggerLevel,  \* effective level of the module loggers
    pyDebug,      \* Python's __debug__: FALSE when run with -O (assert stripped)
    pc,           \* "idle" | "done": position of the (single-threaded) caller
    call,         \* the call being made: its name and arguments
    sent,         \* the requests handed to the transport during the call
    outcome,      \* what the transport did: a response, or an error raised
    result,       \* what the call gave its caller: a return value or an exception
    log,          \* the records the loggers emitted during the call, in order
    value,        \* prefix checks: the string checked
    prefixes,     \* prefix checks: the prefix collection
    verdict       \* prefix checks: which check ran and what it returned

vars == <<loggerLevel, pyDebug, pc, call, sent, outcome, result, log,
          value, prefixes, verdict>>

httpVars == <<loggerLevel, pyDebug, pc, call, sent, outcome, result, log>>
prefixVars == <<value, prefixes, verdict>>

----------------------------------------------------------------------------
(* Bounds of the model *)

MaxListLen == 1     \* longest JSON list a server body holds
MaxStrLen == 3      \* longest string given to the prefix checks
MaxPrefixLen == 2   \* longest prefix in a prefix collection
MaxPrefixes == 2    \* most prefixes in a prefix collection

----------------------------------------------------------------------------
(* Python values *)

None == [t |-> "null"]
Bool(b) == [t |-> "bool", v |-> b]
Num(n) == [t |-> "num", v |-> n]
Str(s) == [t |-> "str", v |-> s]
List(l) == [t |-> "list", v |-> l]
Dict(d) == [t |-> "dict", v |-> d]
Date(s) == [t |-> "date", v |-> s]   \* not JSON-serialisable; str(d) = s

EmptyDict == Dict(<<>>)

\* isinstance(data, dict)
IsDict(x) == x.t = "dict"

\* dict.get(key): the value, or None when the key is absent
DictGet(d, key) == IF key \in DOMAIN d.v THEN d.v[key] ELSE None

\* a truth test that only asks "is not None"
TruthyIsNotNone(x) == x.t # "null"

\* a truth test that only recognises non-zero numbers
TruthyNonZeroNumber(x) == x.t = "num" /\ x.v # 0

\* bool(x): Python's truth value
Truthy(x) ==
    CASE x.t = "null" -> FALSE
      [] x.t = "bool" -> x.v
      [] x.t = "num"  -> x.v # 0
      [] x.t = "str"  -> x.v # ""
      [] x.t = "list" -> Len(x.v) > 0
      [] x.t = "dict" -> DOMAIN x.v # {}
      [] OTHER        -> TRUE

----------------------------------------------------------------------------
(* JSON texts: sequences of lexemes *)

Strings == {"", "a", "code", "value", "id", "when", "2020-01-01"}

Quote(s) == "\"" \o s \o "\""
StringLexemes == {Quote(s) : s \in Strings}
Unquote(tk) == CHOOSE s \in Strings : Quote(s) = tk

NumLexeme == (0 :> "0") @@ (1 :> "1") @@ (7 :> "7")

LiteralOfToken ==
    ("null" :> None) @@ ("true" :> Bool(TRUE)) @@ ("false" :> Bool(FALSE)) @@
    ("0" :> Num(0)) @@ ("1" :> Num(1)) @@ ("7" :> Num(7))

\* the order in which a dict's keys are serialised
KeyOrder == <<"code", "value", "id", "when">>
KeysOf(d) == SelectSeq(KeyOrder, LAMBDA k : k \in DOMAIN d)

RECURSIVE Dumps(_)
RECURSIVE DumpItems(_)
RECURSIVE DumpMembers(_, _)

DumpItems(l) ==
    IF Len(l) = 0 THEN <<>>
    ELSE IF Len(l) = 1 THEN Dumps(l[1])
    ELSE Dumps(l[1]) \o <<",">> \o DumpItems(Tail(l))

DumpMembers(d, keys) ==
    IF Len(keys) = 0 THEN <<>>
    ELSE LET m == <<Quote(keys[1]), ":">> \o Dumps(d[keys[1]])
         IN  IF Len(keys) = 1 THEN m
             ELSE m \o <<",">> \o DumpMembers(d, Tail(keys))

\* json.dumps(x, default=str)
Dumps(x) ==
    CASE x.t = "null" -> <<"null">>
      [] x.t = "bool" -> IF x.v THEN <<"true">> ELSE <<"false">>
      [] x.t = "num"  -> <<NumLexeme[x.v]>>
      [] x.t = "str"  -> <<Quote(x.v)>>
      [] x.t = "list" -> <<"[">> \o DumpItems(x.v) \o <<"]">>
      [] x.t = "dict" -> <<"{">> \o DumpMembers(x.v, KeysOf(x.v)) \o <<"}">>
      [] OTHER        -> <<Quote(x.v)>>

ParseFail == [ok |-> FALSE, val |-> None, next |-> 0]
ParseOk(x, n) == [ok |-> TRUE, val |-> x, next |-> n]
Tok(toks, i) == IF i <= Len(toks) THEN toks[i] ELSE "<eof>"

RECURSIVE ParseValue(_, _)
RECURSIVE ParseItems(_, _, _)
RECURSIVE ParseMembers(_, _, _)

ParseItems(toks, i, acc) ==
    LET e == ParseValue(toks, i) IN
    IF ~e.ok THEN ParseFail
    ELSE LET sep == Tok(toks, e.next) IN
         CASE sep = "," -> ParseItems(toks, e.next + 1, Append(acc, e.val))
           [] sep = "]" -> ParseOk(List(Append(acc, e.val)), e.next + 1)
           [] OTHER     -> ParseFail

ParseMembers(toks, i, acc) ==
    IF Tok(toks, i) \notin StringLexemes \/ Tok(toks, i + 1) # ":" THEN ParseFail
    ELSE LET e == ParseValue(toks, i + 2) IN
         IF ~e.ok THEN ParseFail
         ELSE LET d == (Unquote(Tok(toks, i)) :> e.val) @@ acc
                  sep == Tok(toks, e.next)
              IN  CASE sep = "," -> ParseMembers(toks, e.next + 1, d)
                    [] sep = "}" -> ParseOk(Dict(d), e.next + 1)
                    [] OTHER     -> ParseFail

ParseValue(toks, i) ==
    LET tk == Tok(toks, i) IN
    CASE tk \in DOMAIN LiteralOfToken -> ParseOk(LiteralOfToken[tk], i + 1)
      [] tk \in StringLexemes -> ParseOk(Str(Unquote(tk)), i + 1)
      [] tk = "[" -> IF Tok(toks, i + 1) = "]" THEN ParseOk(List(<<>>), i + 2)
                     ELSE ParseItems(toks, i + 1, <<>>)
      [] tk = "{" -> IF Tok(toks, i + 1) = "}" THEN ParseOk(EmptyDict, i + 2)
                     ELSE ParseMembers(toks, i + 1, <<>>)
      [] OTHER -> ParseFail

\* json.loads(text): ok = FALSE stands for json.JSONDecodeError
Loads(text) ==
    LET p == ParseValue(text, 1) IN
    IF p.ok /\ p.next = Len(text) + 1 THEN [ok |-> TRUE, val |-> p.val]
    ELSE [ok |-> FALSE, val |-> None]

----------------------------------------------------------------------------
(* Logging *)

DEBUG == 10
INFO == 20
ERROR == 40

\* the levels the loggers may be configured to: everything enabled, errors
\* only, and (ERROR + 10) none of the messages of these modules
Levels == {DEBUG, ERROR, ERROR + 10}

\* Logger.isEnabledFor(level)
IsEnabledFor(level) == level >= loggerLevel

\* number of %s conversions in the format strings the modules use
Placeholders ==
    ("status_code %s from %s" :> 2) @@ ("bad json from %s" :> 1) @@
    ("wrong response type (%s) from %s" :> 2) @@
    ("non-zero code (%s) from %s" :> 2) @@
    ("initial url: %s" :> 1) @@ ("redirected url:" :> 0)

\* Logger.log(level, fmt, *params): a record is emitted when the level is
\* enabled; a format string that does not match its arguments makes the
\* handler report the error on stderr and emit nothing, without raising.
Emit(level, fmt, params) ==
    IF ~IsEnabledFor(level) THEN <<>>
    ELSE IF Len(params) = 0 \/ Len(params) = Placeholders[fmt]
         THEN <<[fmt |-> fmt, lvl |-> level, params |-> params]>>
         ELSE <<>>

\* Logger.log(level, msg) with no arguments: msg is emitted as it is.
\* what names the message, payload is its content.
EmitRaw(level, what, payload) ==
    IF ~IsEnabledFor(level) THEN <<>>
    ELSE <<[fmt |-> what, lvl |-> level, params |-> <<payload>>]>>

----------------------------------------------------------------------------
(* Requests, responses and the transport *)

HTTP_OK == 200
timeout == 30
PreviewLen == 255

base_url == "https://api.example.com/v1/"
AbsolutePaths == {"https://other.example.com/x"}
Paths == {"users"} \cup AbsolutePaths
RedirectedUrl == "https://cdn.example.com/final"

\* urllib.parse.urljoin(base, path), for a base ending in "/" and a path that
\* is either relative without dots or a full URL
urljoin(base, path) == IF path \in AbsolutePaths THEN path ELSE base \o path

\* str.upper() on the method names used
Upper(m) == IF m = "get" THEN "GET" ELSE IF m = "post" THEN "POST" ELSE m

JsonHeaders == ("Content-type" :> "application/json")

\* dict operations on keyword arguments
SetDefault(kw, k, x) == IF k \in DOMAIN kw THEN kw ELSE (k :> x) @@ kw
Put(kw, k, x) == (k :> x) @@ kw
Without(kw, k) == [x \in DOMAIN kw \ {k} |-> kw[x]]

Return(x) == [kind |-> "return", val |-> x, exc |-> ""]
Raise(e) == [kind |-> "raise", val |-> None, exc |-> e]
NoResult == [kind |-> "none", val |-> None, exc |-> ""]

NoResponse == [status_code |-> 0, body |-> <<>>, url |-> ""]
NoOutcome == [kind |-> "none", resp |-> NoResponse, exc |-> ""]
Responded(r) == [kind |-> "response", resp |-> r, exc |-> ""]
Failed(e) == [kind |-> "error", resp |-> NoResponse, exc |-> e]

\* resp.text and resp.content: the body as text and as bytes
Text(resp) == resp.body
Content(resp) == [t |-> "bytes", v |-> resp.body]

\* text[:n]
Take(text, n) == SubSeq(text, 1, IF Len(text) < n THEN Len(text) ELSE n)

(* What servers answer *)
Atoms == {None, Bool(TRUE), Bool(FALSE), Num(0), Num(7), Str(""), Str("a")}
ListElems == {Num(0), Str("a")}
SeqsUpTo(S, n) == UNION {[1..k -> S] : k \in 0..n}
Lists == {List(l) : l \in SeqsUpTo(ListElems, MaxListLen)}
CodeValues == Atoms \cup {List(<<>>), List(<<Num(0)>>), EmptyDict}
Absent == [t |-> "absent"]
Member(k, x) == IF x = Absent THEN <<>> ELSE (k :> x)
Dicts == {Dict(Member("code", c) @@ Member("value", x)) :
             c \in CodeValues \cup {Absent}, x \in {Num(1), Absent}}
ServerValues == Atoms \cup Lists \cup Dicts

Truncated(text) == SubSeq(text, 1, Len(text) - 1)
ExtraBodies ==
    { <<"<html>">>, <<"0", "0">>, <<"[", "0", ",", "]">>,
      <<"{", "\"value\"", ":", "1", ",", "\"code\"", ":", "0", "}">>,
      <<"{", "\"code\"", ":", "7", ",", "\"code\"", ":", "0", "}">>,
      <<"{", "\"code\"", ":", "0", ",", "\"code\"", ":", "7", "}">>,
      <<"{", "code", ":", "0", "}">> }
Bodies ==
    {Dumps(x) : x \in ServerValues} \cup
    {Truncated(Dumps(x)) : x \in Lists \cup {None, Dict(Member("code", Num(0)))}}
    \cup ExtraBodies

Statuses == {HTTP_OK, 201, 500}
TransportErrors == {"ConnectionError", "Timeout"}

\* what the transport may do with a request for url
Outcomes(urls) ==
    {Responded([status_code |-> s, body |-> b, url |-> u]) :
        s \in Statuses, b \in Bodies, u \in urls}
    \cup {Failed(e) : e \in TransportErrors}

(* What callers pass *)
DataValues ==
    { None, Dict(("id" :> Num(7)) @@ ("when" :> Date("2020-01-01"))) }
CallerKwargs ==
    { <<>>, ("timeout" :> 5), ("headers" :> JsonHeaders), ("json" :> Num(1)) }
GetKwargs == CallerKwargs \cup {("data" :> d) : d \in DataValues}
Methods == {"get", "POST"}

----------------------------------------------------------------------------
(* HTTPClient *)

\* HTTPClient.get_url
get_url(path) == urljoin(base_url, path)

\* utils.dump_json_request_to_curl(method, url, data=data): the command line
\* that repeats the request
dump_json_request_to_curl(method, url, data) ==
    <<"curl", "-X", method, url>>
    \o (IF data = None THEN <<>>
        ELSE <<"-H", "Content-type: application/json", "-d">> \o Dumps(data))

\* a status test that only rejects 4xx and 5xx
IsBadStatusFrom400(resp) == resp.status_code >= 400

\* resp.status_code != 200
IsBadStatus(resp) == resp.status_code # HTTP_OK

\* HTTPClient._load_json(resp): res is what it returns or raises, logs what
\* it logs.  On a decoded value that is not a dict the error is logged and
\* execution goes on to data.get('code'), which raises AttributeError.
load_json(resp) ==
    IF IsBadStatus(resp)
    THEN [res  |-> Return(None),
          logs |-> Emit(ERROR, "status_code %s from %s",
                        <<resp.status_code, resp.url>>)]
    ELSE LET parsed == Loads(Text(resp)) IN
         IF ~parsed.ok
         THEN [res  |-> Return(None),
               logs |-> Emit(ERROR, "bad json from %s", <<resp.url>>)]
         ELSE LET data == parsed.val
                  wrong == IF ~IsDict(data)
                           THEN Emit(ERROR, "wrong response type (%s) from %s",
                                     <<data.t, resp.url>>)
                           ELSE <<>>
              IN  IF ~IsDict(data)
                  THEN [res |-> Raise("AttributeError"), logs |-> wrong]
                  ELSE LET code == DictGet(data, "code") IN
                       IF Truthy(code)
                       THEN [res  |-> Return(None),
                             logs |-> wrong \o
                                 Emit(ERROR, "non-zero code (%s) from %s",
                                      <<code, resp.url>>)]
                       ELSE [res |-> Return(data), logs |-> wrong]

\* the level log_request_as_curl uses when the caller gives none
CurlDefaultLevel == DEBUG
\* the level log_resp_content uses when the caller gives none
RespContentDefaultLevel == ERROR

\* HTTPClient.log_request_as_curl(method, url, data, level)
log_request_as_curl(method, url, data, level) ==
    IF ~IsEnabledFor(level) THEN <<>>
    ELSE EmitRaw(level, "curl", dump_json_request_to_curl(method, url, data))

\* log_resp_content with its guard inverted
log_resp_content_inverted(resp, level) ==
    IF IsEnabledFor(level) THEN <<>>
    ELSE <<[fmt |-> "resp.text[:255]", lvl |-> level,
            params |-> <<Take(Text(resp), PreviewLen)>>]>>

\* HTTPClient.log_resp_content(resp, level).  Response.text decodes with
\* errors replaced and does not raise, so the fallback to resp.content is
\* not taken.
log_resp_content(resp, level) ==
    IF ~IsEnabledFor(level) THEN <<>>
    ELSE EmitRaw(level, "resp.text[:255]", Take(Text(resp), PreviewLen))

\* HTTPClient.json_request(method, path, data, **kwargs), the transport
\* answering with out
json_request(method0, path, data, kwargs, out) ==
    LET url == get_url(path)
        method == Upper(method0)
        kw1 == SetDefault(kwargs, "timeout", timeout)
        kw2 == IF data # None
               THEN Put(Put(kw1, "data", Dumps(data)), "headers", JsonHeaders)
               ELSE kw1
        req == [method |-> method, url |-> url, kwargs |-> kw2]
    IN  IF out.kind = "error"
        THEN [sent |-> <<req>>, outcome |-> out,
              result |-> Raise(out.exc), log |-> <<>>]
        ELSE LET resp == out.resp
                 loaded == load_json(resp)
             IN  IF loaded.res.kind = "raise"
                 THEN [sent |-> <<req>>, outcome |-> out,
                       result |-> loaded.res, log |-> loaded.logs]
                 ELSE IF loaded.res.val = None
                 THEN [sent |-> <<req>>, outcome |-> out,
                       result |-> Return(None),
                       log |-> loaded.logs
                           \o log_resp_content(resp, RespContentDefaultLevel)
                           \o log_request_as_curl(method, url, data,
                                                  CurlDefaultLevel)]
                 ELSE [sent |-> <<req>>, outcome |-> out,
                       result |-> Return(loaded.res.val),
                       log |-> loaded.logs
                           \o log_request_as_curl(method, url, data, DEBUG)]

\* json_get without its assert
json_get_unchecked(path, kwargs, out) ==
    json_request("GET", path,
                 IF "data" \in DOMAIN kwargs THEN kwargs["data"] ELSE None,
                 Without(kwargs, "data"), out)

\* HTTPClient.json_get(path, **kwargs): the assert is executed only when
\* __debug__ holds; without it a 'data' keyword binds json_request's data
json_get(path, kwargs, out) ==
    IF pyDebug /\ "data" \in DOMAIN kwargs
    THEN [sent |-> <<>>, outcome |-> NoOutcome,
          result |-> Raise("AssertionError"), log |-> <<>>]
    ELSE json_request("GET", path,
                      IF "data" \in DOMAIN kwargs THEN kwargs["data"] ELSE None,
                      Without(kwargs, "data"), out)

\* HTTPClient.json_post(path, data, **kwargs): data is a named parameter, so
\* kwargs never holds 'data' and the assert never fails
json_post(path, data, kwargs, out) ==
    json_request("POST", path, data, kwargs, out)

----------------------------------------------------------------------------
(* PDFClient *)

\* PDFClient._generate(tpl_path, data): the pair (resp.content, resp.url)
generate_pair(tpl_path, data, out) ==
    LET url == urljoin(base_url, tpl_path)
        payload == Dumps(data)
        req == [method |-> "POST", url |-> url,
                kwargs |-> ("data" :> payload) @@ ("headers" :> JsonHeaders)]
        log1 == Emit(INFO, "initial url: %s", <<url>>)
    IN  IF out.kind = "error"
        THEN [sent |-> <<req>>, outcome |-> out,
              result |-> Raise(out.exc), log |-> log1]
        ELSE [sent |-> <<req>>, outcome |-> out,
              result |-> Return(<<Content(out.resp), out.resp.url>>),
              log |-> log1 \o Emit(INFO, "redirected url:", <<out.resp.url>>)]

\* generate validating the status the way the JSON client does
generate_checking_status(tpl_path, data, out) ==
    LET g == generate_pair(tpl_path, data, out) IN
    IF g.result.kind = "raise" THEN g
    ELSE IF out.resp.status_code # HTTP_OK
         THEN [g EXCEPT !.result = Return(None)]
         ELSE [g EXCEPT !.result = Return(g.result.val[1])]

\* PDFClient.generate(tpl_path, data)
generate(tpl_path, data, out) ==
    LET g == generate_pair(tpl_path, data, out) IN
    IF g.result.kind = "raise" THEN g
    ELSE [g EXCEPT !.result = Return(g.result.val[1])]

----------------------------------------------------------------------------
(* The caller *)

NoCall == [op |-> "none", method |-> "", path |-> "", data |-> None,
           kwargs |-> <<>>]

Idle ==
    /\ pc = "idle"
    /\ call = NoCall
    /\ sent = <<>>
    /\ outcome = NoOutcome
    /\ result = NoResult
    /\ log = <<>>

NoPrefixCheck ==
    /\ value = <<>>
    /\ prefixes = <<>>
    /\ verdict = [fn |-> "none", val |-> FALSE]

Init ==
    /\ loggerLevel \in Levels
    /\ pyDebug \in BOOLEAN
    /\ Idle
    /\ NoPrefixCheck

\* the run of one call: r is what the method did
Ran(c, r) ==
    /\ pc' = "done"
    /\ call' = c
    /\ sent' = r.sent
    /\ outcome' = r.outcome
    /\ result' = r.result
    /\ log' = r.log
    /\ UNCHANGED <<loggerLevel, pyDebug, prefixVars>>

\* logging configured from outside, between calls
SetLevel ==
    /\ pc = "idle"
    /\ \E l \in Levels \ {loggerLevel} : loggerLevel' = l
    /\ UNCHANGED <<pyDebug, pc, call, sent, outcome, result, log, prefixVars>>

JsonRequest ==
    /\ pc = "idle"
    /\ \E m \in Methods, p \in Paths, d \in DataValues, kw \in CallerKwargs :
         \E out \in Outcomes({get_url(p)}) :
            Ran([op |-> "json_request", method |-> m, path |-> p,
                 data |-> d, kwargs |-> kw],
                json_request(m, p, d, kw, out))

JsonGet ==
    /\ pc = "idle"
    /\ \E p \in Paths, kw \in GetKwargs :
         \E out \in Outcomes({get_url(p)}) :
            Ran([op |-> "json_get", method |-> "", path |-> p,
                 data |-> None, kwargs |-> kw],
                json_get(p, kw, out))

JsonPost ==
    /\ pc = "idle"
    /\ \E p \in Paths, d \in DataValues, kw \in CallerKwargs :
         \E out \in Outcomes({get_url(p)}) :
            Ran([op |-> "json_post", method |-> "", path |-> p,
                 data |-> d, kwargs |-> kw],
                json_post(p, d, kw, out))

Generate ==
    /\ pc = "idle"
    /\ \E p \in Paths, d \in DataValues \ {None} :
         \E out \in Outcomes({urljoin(base_url, p), RedirectedUrl}) :
            Ran([op |-> "generate", method |-> "", path |-> p,
                 data |-> d, kwargs |-> <<>>],
                generate(p, d, out))

\* the caller takes the result; the next call starts afresh
Finish ==
    /\ pc = "done"
    /\ pc' = "idle"
    /\ call' = NoCall
    /\ sent' = <<>>
    /\ outcome' = NoOutcome
    /\ result' = NoResult
    /\ log' = <<>>
    /\ UNCHANGED <<loggerLevel, pyDebug, prefixVars>>

Next ==
    \/ SetLevel
    \/ JsonRequest
    \/ JsonGet
    \/ JsonPost
    \/ Generate
    \/ Finish

Spec == Init /\ [][Next]_vars

----------------------------------------------------------------------------
(* utils: the prefix checks.  Strings are sequences of characters. *)

Alphabet == {"h", "e"}
Words(n) == SeqsUpTo(Alphabet, n)

\* a test for the prefix occurring anywhere in s (prefix in s)
occurs_in(s, prefix) ==
    \E i \in 0..Len(s) :
        /\ i + Len(prefix) <= Len(s)
        /\ \A j \in 1..Len(prefix) : s[i + j] = prefix[j]

\* str.startswith(prefix)
startswith(s, prefix) ==
    /\ Len(prefix) <= Len(s)
    /\ \A j \in 1..Len(prefix) : s[j] = prefix[j]

RECURSIVE check_inclusive_prefixes(_, _)
\* utils.check_inclusive_prefixes(value, prefixes)
check_inclusive_prefixes(s, ps) ==
    IF Len(ps) = 0 THEN FALSE
    ELSE IF startswith(s, Head(ps)) THEN TRUE
    ELSE check_inclusive_prefixes(s, Tail(ps))

RECURSIVE check_exclusive_any(_, _)
\* an exclusive check that is true as soon as one prefix does not match
check_exclusive_any(s, ps) ==
    IF Len(ps) = 0 THEN TRUE
    ELSE IF ~startswith(s, Head(ps)) THEN TRUE
    ELSE Len(ps) > 1 /\ check_exclusive_any(s, Tail(ps))

RECURSIVE check_exclusive_prefixes(_, _)
\* utils.check_exclusive_prefixes(value, prefixes)
check_exclusive_prefixes(s, ps) ==
    IF Len(ps) = 0 THEN TRUE
    ELSE IF startswith(s, Head(ps)) THEN FALSE
    ELSE check_exclusive_prefixes(s, Tail(ps))

PrefixInit ==
    /\ loggerLevel = ERROR
    /\ pyDebug = TRUE
    /\ Idle
    /\ value \in Words(MaxStrLen)
    /\ prefixes \in SeqsUpTo(Words(MaxPrefixLen), MaxPrefixes)
    /\ verdict = [fn |-> "none", val |-> FALSE]

CheckInclusive ==
    /\ verdict' = [fn |-> "inclusive",
                   val |-> check_inclusive_prefixes(value, prefixes)]
    /\ UNCHANGED <<httpVars, value, prefixes>>

CheckExclusive ==
    /\ verdict' = [fn |-> "exclusive",
                   val |-> check_exclusive_prefixes(value, prefixes)]
    /\ UNCHANGED <<httpVars, value, prefixes>>

PrefixNext == CheckInclusive \/ CheckExclusive

SpecPrefix == PrefixInit /\ [][PrefixNext]_vars

----------------------------------------------------------------------------
(* Properties *)

JsonOps == {"json_request", "json_get", "json_post"}

\* a JSON client call has run and the transport gave it a response
Answered == pc = "done" /\ call.op \in JsonOps /\ outcome.kind = "response"

\* the values Python takes as false
FalsyValues == {None, Bool(FALSE), Num(0), Str(""), List(<<>>), EmptyDict}

\* the messages logged during the call, in order
LogFmts == [i \in 1..Len(log) |-> log[i].fmt]

\* C1: a response whose status code is not 200, whatever its body, makes
\* json_request return None; nothing is raised.
C1_NonOkStatusReturnsNone ==
    (Answered /\ outcome.resp.status_code # 200) => result = Return(None)

C1_Witness ==
    /\ Answered
    /\ outcome.resp.status_code = 201
    /\ outcome.resp.body = Dumps(Dict(("code" :> Num(0)) @@ ("value" :> Num(1))))
    /\ result = Return(None)

\* C2: a 200 response whose body decodes to a mapping with 'code' absent or
\* falsy makes json_request return that mapping, unchanged: the mapping the
\* server serialised, and the mapping the body decodes to.
C2_FalsyCodeReturnsMapping ==
    (Answered /\ outcome.resp.status_code = 200) =>
        /\ \A x \in Dicts :
              (outcome.resp.body = Dumps(x) /\ DictGet(x, "code") \in FalsyValues)
                  => result = Return(x)
        /\ LET p == Loads(outcome.resp.body) IN
              (p.ok /\ p.val.t = "dict" /\ DictGet(p.val, "code") \in FalsyValues)
                  => result = Return(p.val)

C2_Witness ==
    /\ Answered
    /\ outcome.resp.status_code = 200
    /\ outcome.resp.body =
          <<"{", "\"code\"", ":", "0", ",", "\"value\"", ":", "1", "}">>
    /\ result = Return(Dict(("code" :> Num(0)) @@ ("value" :> Num(1))))

\* C3: a 200 response whose body decodes to a mapping with a truthy 'code'
\* makes json_request return None; nothing is raised.
C3_TruthyCodeReturnsNone ==
    (Answered /\ outcome.resp.status_code = 200) =>
        LET p == Loads(outcome.resp.body) IN
        (p.ok /\ p.val.t = "dict" /\ DictGet(p.val, "code") \notin FalsyValues)
            => result = Return(None)

C3_Witness ==
    /\ Answered
    /\ outcome.resp.status_code = 200
    /\ outcome.resp.body = <<"{", "\"code\"", ":", "\"a\"", "}">>
    /\ result = Return(None)

\* C4: a 200 response whose body is valid JSON but not a mapping makes
\* json_request log a type-mismatch error (when errors are logged) and
\* return None; nothing is raised.
C4_NonMappingReturnsNone ==
    (Answered /\ outcome.resp.status_code = 200) =>
        LET p == Loads(outcome.resp.body) IN
        (p.ok /\ p.val.t # "dict") =>
            /\ result = Return(None)
            /\ loggerLevel <= ERROR =>
                  \E i \in 1..Len(log) :
                      log[i].fmt = "wrong response type (%s) from %s"

\* C5: a 200 response whose body is not parsable as JSON makes json_request
\* log a decode error, then the response body preview, then the
\* curl-equivalent (each when its level is enabled: the first two are error
\* records, the third a debug record) and return None; nothing is raised.
C5_BadJsonLogsAndReturnsNone ==
    (Answered /\ outcome.resp.status_code = 200
              /\ ~Loads(outcome.resp.body).ok) =>
        /\ result = Return(None)
        /\ LogFmts =
              (IF loggerLevel <= ERROR
               THEN <<"bad json from %s", "resp.text[:255]">> ELSE <<>>)
              \o (IF loggerLevel <= DEBUG THEN <<"curl">> ELSE <<>>)
        /\ loggerLevel <= ERROR =>
              /\ log[1].params = <<outcome.resp.url>>
              /\ log[2].params = <<outcome.resp.body>>

C5_Witness ==
    /\ Answered
    /\ outcome.resp.status_code = 200
    /\ outcome.resp.body = <<"[", "0", ",", "]">>
    /\ loggerLevel = DEBUG
    /\ LogFmts = <<"bad json from %s", "resp.text[:255]", "curl">>
    /\ result = Return(None)

\* the request carries a body
CarriesBody(req) == {"data", "json"} \cap DOMAIN req.kwargs # {}

\* the request carries the JSON content-type header
CarriesJsonContentType(req) ==
    /\ "headers" \in DOMAIN req.kwargs
    /\ "Content-type" \in DOMAIN req.kwargs["headers"]
    /\ req.kwargs["headers"]["Content-type"] = "application/json"

\* C8 (as claimed): a json_get call that passes 'data' fails its assertion
\* before any request is issued, and no request issued through json_get
\* carries a body or the JSON content-type header; a call without 'data' goes
\* out as a GET.
C8_GetNeverCarriesBody ==
    (pc = "done" /\ call.op = "json_get") =>
        /\ "data" \in DOMAIN call.kwargs =>
              (sent = <<>> /\ result = Raise("AssertionError"))
        /\ \A i \in 1..Len(sent) :
              /\ sent[i].method = "GET"
              /\ ~CarriesBody(sent[i])
              /\ ~CarriesJsonContentType(sent[i])

\* C8 (amended): with assertions enabled, a json_get call that passes 'data'
\* fails its assertion before any request is issued; a call without 'data'
\* issues one GET request for the joined URL whose options are the caller's
\* own, unchanged, plus the default timeout: json_request adds no body and
\* no header of its own.
C8_GetForbidsData ==
    (pc = "done" /\ call.op = "json_get") =>
        /\ (pyDebug /\ "data" \in DOMAIN call.kwargs) =>
              (sent = <<>> /\ result = Raise("AssertionError"))
        /\ "data" \notin DOMAIN call.kwargs =>
              /\ Len(sent) = 1
              /\ sent[1].method = "GET"
              /\ sent[1].url \in {"https://api.example.com/v1/users",
                                  "https://other.example.com/x"}
              /\ DOMAIN sent[1].kwargs = DOMAIN call.kwargs \cup {"timeout"}
              /\ \A k \in DOMAIN call.kwargs :
                    sent[1].kwargs[k] = call.kwargs[k]
              /\ "timeout" \notin DOMAIN call.kwargs =>
                    sent[1].kwargs["timeout"] = 30

C8_Witness ==
    /\ pc = "done"
    /\ call.op = "json_get"
    /\ pyDebug
    /\ "data" \in DOMAIN call.kwargs
    /\ call.kwargs["data"] # None
    /\ sent = <<>>
    /\ result = Raise("AssertionError")

\* C9: generate returns the raw body bytes of whatever response the
\* transport gives, with no look at its status or content (the first
\* component of _generate, whose second is the final URL), and an error the
\* transport raises reaches the caller as it is.
C9_GeneratePassesThrough ==
    (pc = "done" /\ call.op = "generate") =>
        /\ outcome.kind = "response" =>
              /\ result = Return([t |-> "bytes", v |-> outcome.resp.body])
              /\ generate_pair(call.path, call.data, outcome).result =
                    Return(<<[t |-> "bytes", v |-> outcome.resp.body],
                             outcome.resp.url>>)
        /\ outcome.kind = "error" => result = Raise(outcome.exc)
        /\ outcome.kind \in {"response", "error"}

C9_Witness ==
    /\ pc = "done"
    /\ call.op = "generate"
    /\ outcome.kind = "response"
    /\ outcome.resp.status_code = 500
    /\ outcome.resp.body = <<"<html>">>
    /\ outcome.resp.url = RedirectedUrl
    /\ result = Return([t |-> "bytes", v |-> <<"<html>">>])

\* C10: on a non-200 response, with error logging enabled, json_request logs
\* in this order the status error, the response body preview and the
\* curl-equivalent, the last one at error level.
C10_NonOkLogsCurlAtError ==
    (Answered /\ outcome.resp.status_code # 200 /\ loggerLevel <= ERROR) =>
        /\ LogFmts = <<"status_code %s from %s", "resp.text[:255]", "curl">>
        /\ log[3].lvl = ERROR

----------------------------------------------------------------------------
(* Properties of the prefix checks, under SpecPrefix *)

\* p is s cut after some number of characters
IsPrefixOf(p, s) == \E k \in 0..Len(s) : SubSeq(s, 1, k) = p

\* C6: check_inclusive_prefixes(s, P) is true exactly when some element of P
\* is a prefix of s: false for an empty P, and an element found only further
\* on in s does not count.
C6_InclusiveIffSomePrefix ==
    verdict.fn = "inclusive" =>
        (verdict.val <=>
            \E i \in 1..Len(prefixes) : IsPrefixOf(prefixes[i], value))

C6_Witness ==
    /\ verdict = [fn |-> "inclusive", val |-> FALSE]
    /\ value = <<"h", "e", "e">>
    /\ prefixes = << <<"e">>, <<"e", "e">> >>

\* C7: check_exclusive_prefixes(s, P) is true exactly when no element of P
\* is a prefix of s: true for an empty P, false as soon as one element is a
\* prefix even if the others are not.
C7_ExclusiveIffNoPrefix ==
    verdict.fn = "exclusive" =>
        (verdict.val <=>
            \A i \in 1..Len(prefixes) : ~IsPrefixOf(prefixes[i], value))

C7_Witness ==
    /\ verdict = [fn |-> "exclusive", val |-> FALSE]
    /\ value = <<"h", "e">>
    /\ prefixes = << <<"h">>, <<"e">> >>

====
